---- MODULE Spec2Model ----
(***************************************************************************)
(* State-machine model of the retrieval-augmented-generation pipeline of   *)
(* challenge/simple-RAG-openai-answer/rag_system.py: KnowledgeBase (index  *)
(* construction and top-k retrieval) and RAGSystem (search_and_generate).  *)
(*                                                                         *)
(* Strings are modelled as sequences of tokens (a token is a TLA+ string), *)
(* so that formatting, stripping and concatenation are computed, not       *)
(* assumed.  An embedding is an Optional list of numbers: Some(v) or None. *)
(* The two OpenAI endpoints are the environment: each call either raises   *)
(* or returns one of a small set of values.                                *)
(***************************************************************************)
EXTENDS Integers, Sequences, FiniteSets, TLC

\* ---------------------------------------------------------------- bounds
\* invocations of the SOCI indexer Lambda in one warm environment
MaxInvocations == 2
\* largest corpus the model loads
MaxDocs == 2
\* top_k ranges over -MaxNegK .. MaxK
MaxK == 3
MaxNegK == 1
\* longest chat completion content, in characters
MaxTextLen == 2

\* ------------------------------------------------------------ data model
\* Optional[list[float]]: Document.embeddings and what the embeddings
\* endpoint hands back in response.data[0].embedding
None == [some |-> FALSE, vec |-> <<>>]
Some(v) == [some |-> TRUE, vec |-> v]

\* the dimension text-embedding-3-small is expected to answer with (scaled
\* down from 1536)
Dim == 2

\* well-formed embeddings (length Dim, non-zero, not all unit length)
GoodVecs == {<<1, 0>>, <<1, 1>>, <<3, 0>>}
\* a vector of another dimension
ShortVec == <<2>>

\* what _embed_single_text can return when the endpoint does not raise
EmbedValues == {Some(v) : v \in GoodVecs} \cup {Some(ShortVec), None}

\* dataclass Document
Document(id, title, content, category, embeddings) ==
    [id |-> id, title |-> title, content |-> content,
     category |-> category, embeddings |-> embeddings]

\* the records json.load yields for data/documents.json (ids unique,
\* title and content distinct)
Corpus ==
    << [id |-> "1", title |-> "ML Basics",
        content |-> "intro to machine learning", category |-> "ml"],
       [id |-> "2", title |-> "Deploy",
        content |-> "best practices for deploying models", category |-> "ops"],
       [id |-> "3", title |-> "Networks",
        content |-> "types of neural networks", category |-> "ml"],
       [id |-> "4", title |-> "Monitoring",
        content |-> "watching models in production", category |-> "ops"] >>

\* KnowledgeBase.__init__, lines 58-67: raw documents carry no embeddings
RawDocuments(n) ==
    [i \in 1..n |-> Document(Corpus[i].id, Corpus[i].title, Corpus[i].content,
                             Corpus[i].category, None)]

Queries == {"", "q"}
Ks == (0 - MaxNegK)..MaxK

\* characters of a chat completion: a blank and a letter
Chars == {" ", "x"}
RECURSIVE TextsUpTo(_)
TextsUpTo(n) ==
    IF n = 0 THEN {<<>>}
    ELSE LET shorter == TextsUpTo(n - 1)
         IN shorter \cup {Append(t, c) : t \in {s \in shorter : Len(s) = n - 1}, c \in Chars}
Texts == TextsUpTo(MaxTextLen)

\* outcomes of client.chat.completions.create followed by .message.content
GenOutcomes ==
    {[kind |-> "ok", content |-> t, reason |-> ""] : t \in Texts}
    \cup {[kind |-> "none", content |-> <<>>, reason |-> ""]}
    \cup {[kind |-> "raise", content |-> <<>>, reason |-> r] : r \in {"APIError"}}

\* outcomes of client.embeddings.create followed by .data[0].embedding
EmbedOutcomes ==
    {[kind |-> "ok", value |-> e, reason |-> ""] : e \in EmbedValues}
    \cup {[kind |-> "raise", value |-> None, reason |-> r] : r \in {"APIError"}}

\* ------------------------------------------------------- pure functions
Min(a, b) == IF a <= b THEN a ELSE b
Max(a, b) == IF a >= b THEN a ELSE b

\* faulty variant of EmbedSingleText: an endpoint error is swallowed and None
\* is returned
EmbedSingleTextSwallow(out) ==
    [raised |-> FALSE, exc |-> "", value |-> out.value]
\* KnowledgeBase._embed_single_text, lines 72-75: no try/except, so an
\* endpoint error propagates; whatever the endpoint returns is returned
EmbedSingleText(out) ==
    IF out.kind = "raise"
    THEN [raised |-> TRUE, exc |-> out.reason, value |-> None]
    ELSE [raised |-> FALSE, exc |-> "", value |-> out.value]

\* faulty variant of CreateEmbeddingsStep: a document whose embedding call
\* failed is skipped (best effort) instead of failing the build
CreateEmbeddingsStepSkip(acc, doc, out) ==
    IF out.kind = "raise"
    THEN [raised |-> FALSE, exc |-> "", value |-> acc]
    ELSE [raised |-> FALSE, exc |-> "",
          value |-> Append(acc, Document(doc.id, doc.title, doc.content,
                                         doc.category, out.value))]
\* one iteration of the list comprehension of _create_embeddings, lines
\* 83-92: a copy of doc with its embedding is appended, or the exception of
\* _embed_single_text leaves the comprehension
CreateEmbeddingsStep(acc, doc, out) ==
    LET e == EmbedSingleText(out)
    IN IF e.raised
       THEN [raised |-> TRUE, exc |-> e.exc, value |-> <<>>]
       ELSE [raised |-> FALSE, exc |-> "",
             value |-> Append(acc, Document(doc.id, doc.title, doc.content,
                                            doc.category, e.value))]

\* sum of products of two equally long number lists
RECURSIVE SumProd(_, _)
SumProd(a, b) ==
    IF a = <<>> THEN 0 ELSE a[1] * b[1] + SumProd(Tail(a), Tail(b))

\* np.dot(query_embeddings, doc.embeddings), line 103: a TypeError when an
\* operand is None, a ValueError when the shapes are not aligned
NpDot(q, e) ==
    IF ~q.some \/ ~e.some
    THEN [raised |-> TRUE, exc |-> "TypeError", value |-> 0]
    ELSE IF Len(q.vec) # Len(e.vec)
    THEN [raised |-> TRUE, exc |-> "ValueError", value |-> 0]
    ELSE [raised |-> FALSE, exc |-> "", value |-> SumProd(q.vec, e.vec)]

\* faulty variant of InsertDesc: x goes before the entries of equal score
InsertDescUnstable(s, x) ==
    LET p == Cardinality({i \in 1..Len(s) : s[i].score > x.score})
    IN SubSeq(s, 1, p) \o <<x>> \o SubSeq(s, p + 1, Len(s))
\* sorted(similarities, key=lambda x: x[0], reverse=True), line 106: a
\* stable sort, so under reverse=True equal keys keep their input order.
\* Insertion of x into an already sorted prefix: after every entry whose
\* score is at least x.score.
InsertDesc(s, x) ==
    LET p == Cardinality({i \in 1..Len(s) : s[i].score >= x.score})
    IN SubSeq(s, 1, p) \o <<x>> \o SubSeq(s, p + 1, Len(s))

RECURSIVE SortedDescFrom(_, _)
SortedDescFrom(acc, rest) ==
    IF rest = <<>> THEN acc
    ELSE SortedDescFrom(InsertDesc(acc, Head(rest)), Tail(rest))
SortedDesc(pairs) == SortedDescFrom(<<>>, pairs)

\* faulty variant of SliceTo: the slice is left out
SliceAll(s, k) == s
\* the slice [:top_k], line 106: a negative top_k counts from the end
SliceTo(s, k) ==
    IF k >= 0 THEN SubSeq(s, 1, Min(k, Len(s)))
    ELSE SubSeq(s, 1, Max(0, Len(s) + k))

\* KnowledgeBase.retrieve_documents after the query is embedded, lines
\* 102-108
RetrieveDocuments(docs, qemb, top_k) ==
    LET dots == [i \in 1..Len(docs) |-> NpDot(qemb, docs[i].embeddings)]
        bad == {i \in 1..Len(docs) : dots[i].raised}
    IN IF bad # {}
       THEN LET first == CHOOSE i \in bad : \A j \in bad : i <= j
            IN [raised |-> TRUE, exc |-> dots[first].exc, value |-> <<>>]
       ELSE LET similarities ==
                    [i \in 1..Len(docs) |->
                        [score |-> dots[i].value, doc |-> docs[i]]]
                top_results == SliceTo(SortedDesc(similarities), top_k)
            IN [raised |-> FALSE, exc |-> "",
                value |-> [i \in 1..Len(top_results) |-> top_results[i].doc]]

\* the block dedent(f"...") yields for one document, lines 155-159: the
\* third line is rendered from doc.title
NL == "\n"
FormatBlock(doc) ==
    <<NL, "ID: ", doc.id, NL, "Title: ", doc.title, NL,
      "Content: ", doc.title, NL>>

\* "\n".join(blocks), line 153
RECURSIVE JoinNL(_)
JoinNL(blocks) ==
    IF blocks = <<>> THEN <<>>
    ELSE IF Len(blocks) = 1 THEN blocks[1]
    ELSE blocks[1] \o <<NL>> \o JoinNL(Tail(blocks))

\* RAGSystem._format_context, lines 147-162
FormatContext(retrieved_docs) ==
    JoinNL([i \in 1..Len(retrieved_docs) |-> FormatBlock(retrieved_docs[i])])

\* RAGSystem._create_prompt_messages, lines 164-180
SystemPrompt == "You are a helpful technical documentation assistant. ..."
CreatePromptMessages(q, ctx) ==
    << [role |-> "system", content |-> <<SystemPrompt>>],
       [role |-> "user",
        content |-> <<"Context:", NL>> \o ctx
                    \o <<NL, NL, "Question: ", q, NL, NL,
                          "Please provide a helpful answer based on the context above.">>] >>

\* str.strip(), line 207: leading and trailing blanks removed
RECURSIVE LStrip(_)
LStrip(t) == IF t # <<>> /\ Head(t) = " " THEN LStrip(Tail(t)) ELSE t
RECURSIVE RStrip(_)
RStrip(t) ==
    IF t # <<>> /\ t[Len(t)] = " " THEN RStrip(SubSeq(t, 1, Len(t) - 1)) ELSE t
Strip(t) == RStrip(LStrip(t))

ErrorPrefix == "Error generating response: "
NoneStripError == "'NoneType' object has no attribute 'strip'"

\* faulty variant of GenerateResponse: no try/except around the call
GenerateResponseNoCatch(out) ==
    IF out.kind = "ok"
    THEN [raised |-> FALSE, exc |-> "", value |-> Strip(out.content)]
    ELSE [raised |-> TRUE, exc |-> out.kind, value |-> <<>>]
\* RAGSystem._generate_response, lines 199-210: the try covers the endpoint
\* call and .content.strip(); except Exception turns either failure into
\* the returned string
GenerateResponse(out) ==
    IF out.kind = "ok"
    THEN [raised |-> FALSE, exc |-> "", value |-> Strip(out.content)]
    ELSE IF out.kind = "none"
    THEN [raised |-> FALSE, exc |-> "", value |-> <<ErrorPrefix, NoneStripError>>]
    ELSE [raised |-> FALSE, exc |-> "", value |-> <<ErrorPrefix, out.reason>>]

\* faulty variant of Result: the last document is left out
ResultDropLast(answer_text, docs) ==
    [answer |-> answer_text,
     supporting_documents |-> SubSeq(docs, 1, Len(docs) - 1)]
\* dataclass Result as built on line 145
Result(answer_text, docs) ==
    [answer |-> answer_text, supporting_documents |-> docs]

\* ----------------------------------------------------------------- state
VARIABLES
    kb_state,            \* "new", "building", "built" (the caller holds the
                         \* KnowledgeBase) or "failed" (__init__ raised)
    raw_documents,       \* __init__'s raw_documents
    building,            \* the list the comprehension of _create_embeddings has built so far
    doc_index,           \* how many raw documents the comprehension has consumed
    embed_in_flight,     \* embedding calls of the build issued and not yet returned
    documents,           \* self.documents, <<>> until line 70 assigns it
    pc,                  \* where the current search_and_generate call is
    query, top_k,        \* its arguments
    query_embeddings,    \* retrieve_documents' local
    related_documents,   \* search_and_generate's locals
    context,
    augmented_messages,
    answer,
    returned,            \* what the call returned: <<>> or <<Result>>
    exc,                 \* the exception the call or the build raised, "" if none
    \* history of the calls the program made, kept for the properties
    build_outcomes,      \* the endpoint's outcome for each document embedded so far
    query_outcome,       \* <<>> or <<the endpoint's outcome for the query>>
    composer_args,       \* the arguments of each _format_context call of this call
    gen_outcomes,        \* the endpoint's outcome of each chat completion of this call
    \* threads that call retrieve_documents on the one KnowledgeBase at the
    \* same time; each is a function of the thread
    t_pc,                \* "idle", "embed_query", "rank", "done" or "raised"
    t_top_k,             \* the call's top_k while it runs
    t_query_embeddings,  \* its local query_embeddings while it runs
    t_result,            \* the list the thread's last call returned
    t_exc,               \* the exception the thread's last call raised, "" if none
    \* the SOCI indexer Lambda, infra/lambda/soci-indexer/index.py
    h_pc,                \* "idle", "running" (inside handler) or "returned"
    h_event,             \* the event of the current invocation
    h_image_tag,         \* handler's image_tag
    h_next,              \* index in StepOrder of the step the handler runs next
    h_steps_done,        \* the steps this invocation has completed, in order
    h_response,          \* what handler returned; statusCode 0 while it has not
    h_escaped,           \* whether an exception left handler
    h_invocations,       \* invocations so far
    h_tmp_soci           \* whether /tmp/soci exists (it outlives an invocation)

vars == <<kb_state, raw_documents, building, doc_index, embed_in_flight, documents, pc, query, top_k,
          query_embeddings, related_documents, context, augmented_messages,
          answer, returned, exc, build_outcomes, query_outcome, composer_args,
          gen_outcomes, t_pc, t_top_k, t_query_embeddings, t_result, t_exc,
          h_pc, h_event, h_image_tag, h_next, h_steps_done, h_response,
          h_escaped, h_invocations, h_tmp_soci>>

kbVars == <<kb_state, raw_documents, building, doc_index, embed_in_flight,
            documents, build_outcomes>>
callVars == <<pc, query, top_k, query_embeddings, related_documents, context,
              augmented_messages, answer, returned, query_outcome,
              composer_args, gen_outcomes>>
threadVars == <<t_pc, t_top_k, t_query_embeddings, t_result, t_exc>>
\* what the actions of the build and of search_and_generate never touch
sociVars == <<h_pc, h_event, h_image_tag, h_next, h_steps_done, h_response,
              h_escaped, h_invocations, h_tmp_soci>>
otherVars == <<threadVars, sociVars>>
\* what the SOCI indexer never touches
ragVars == <<kbVars, callVars, exc, threadVars>>

\* the events the model invokes handler with: `detail` is absent, null or
\* an object; in an object each of repository-name and image-digest is
\* absent, the empty string or present, and image-tag is absent or present
NoEvent == [detail |-> "absent", repo |-> "absent", digest |-> "absent", tag |-> "absent"]
Events ==
    {NoEvent, [NoEvent EXCEPT !.detail = "null"]}
    \cup [detail : {"object"}, repo : {"absent", "empty", "present"},
          digest : {"absent", "empty", "present"}, tag : {"absent", "present"}]
NoResponse == [statusCode |-> 0, body |-> ""]

\* the threads that share the KnowledgeBase
Threads == {"t1", "t2"}

Init ==
    /\ kb_state = "new"
    /\ raw_documents = <<>>
    /\ building = <<>>
    /\ doc_index = 0
    /\ embed_in_flight = 0
    /\ documents = <<>>
    /\ pc = "idle"
    /\ query = ""
    /\ top_k = 0
    /\ query_embeddings = None
    /\ related_documents = <<>>
    /\ context = <<>>
    /\ augmented_messages = <<>>
    /\ answer = <<>>
    /\ returned = <<>>
    /\ exc = ""
    /\ build_outcomes = <<>>
    /\ query_outcome = <<>>
    /\ composer_args = <<>>
    /\ gen_outcomes = <<>>
    /\ t_pc = [t \in Threads |-> "idle"]
    /\ t_top_k = [t \in Threads |-> 0]
    /\ t_query_embeddings = [t \in Threads |-> None]
    /\ t_result = [t \in Threads |-> <<>>]
    /\ t_exc = [t \in Threads |-> ""]
    /\ h_pc = "idle"
    /\ h_event = NoEvent
    /\ h_image_tag = ""
    /\ h_next = 0
    /\ h_steps_done = <<>>
    /\ h_response = NoResponse
    /\ h_escaped = FALSE
    /\ h_invocations = 0
    /\ h_tmp_soci = FALSE

\* --------------------------------------------------------------- actions
\* KnowledgeBase.__init__, lines 55-67: the corpus file is read
KnowledgeBaseInit(n) ==
    /\ kb_state = "new"
    /\ kb_state' = "building"
    /\ raw_documents' = RawDocuments(n)
    /\ UNCHANGED <<building, doc_index, embed_in_flight, documents,
                   build_outcomes, exc>>
    /\ UNCHANGED callVars
    /\ UNCHANGED otherVars

\* _create_embeddings, line 89: the comprehension calls _embed_single_text
\* for the next document and waits for it (a plain loop: no pool, no
\* threads), so a call is issued only when none is outstanding
IssueEmbedding ==
    /\ kb_state = "building"
    /\ doc_index < Len(raw_documents)
    /\ embed_in_flight = 0
    /\ embed_in_flight' = embed_in_flight + 1
    /\ UNCHANGED <<kb_state, raw_documents, building, doc_index, documents,
                   build_outcomes, exc>>
    /\ UNCHANGED callVars
    /\ UNCHANGED otherVars

\* one iteration of _create_embeddings, lines 83-92, with the endpoint
\* answering `out`; an exception leaves __init__, so the caller gets no
\* KnowledgeBase
CreateEmbeddings(out) ==
    /\ kb_state = "building"
    /\ doc_index < Len(raw_documents)
    /\ embed_in_flight > 0
    /\ embed_in_flight' = embed_in_flight - 1
    /\ LET r == CreateEmbeddingsStep(building, raw_documents[doc_index + 1], out)
       IN IF r.raised
          THEN /\ kb_state' = "failed"
               /\ exc' = r.exc
               /\ building' = <<>>
               /\ UNCHANGED doc_index
          ELSE /\ building' = r.value
               /\ doc_index' = doc_index + 1
               /\ UNCHANGED <<kb_state, exc>>
    /\ build_outcomes' = Append(build_outcomes, out)
    /\ UNCHANGED <<raw_documents, documents>>
    /\ UNCHANGED callVars
    /\ UNCHANGED otherVars

\* line 70: self.documents = <the finished list>; __init__ returns
AssignDocuments ==
    /\ kb_state = "building"
    /\ doc_index = Len(raw_documents)
    /\ documents' = building
    /\ kb_state' = "built"
    /\ UNCHANGED <<raw_documents, building, doc_index, embed_in_flight,
                   build_outcomes, exc>>
    /\ UNCHANGED callVars
    /\ UNCHANGED otherVars

\* RAGSystem.search_and_generate is entered, line 131 (main.py calls it once
\* per query, one call after the other); its locals are fresh
SearchAndGenerate(q, k) ==
    /\ kb_state = "built"
    /\ pc \in {"idle", "done", "raised"}
    /\ pc' = "embed_query"
    /\ query' = q
    /\ top_k' = k
    /\ query_embeddings' = None
    /\ related_documents' = <<>>
    /\ context' = <<>>
    /\ augmented_messages' = <<>>
    /\ answer' = <<>>
    /\ returned' = <<>>
    /\ exc' = ""
    /\ query_outcome' = <<>>
    /\ composer_args' = <<>>
    /\ gen_outcomes' = <<>>
    /\ UNCHANGED kbVars
    /\ UNCHANGED otherVars

\* retrieve_documents, line 101: the query is embedded
EmbedQuery(out) ==
    /\ pc = "embed_query"
    /\ query_outcome' = <<out>>
    /\ LET r == EmbedSingleText(out)
       IN IF r.raised
          THEN /\ pc' = "raised"
               /\ exc' = r.exc
               /\ UNCHANGED query_embeddings
          ELSE /\ pc' = "rank"
               /\ query_embeddings' = r.value
               /\ UNCHANGED exc
    /\ UNCHANGED <<query, top_k, related_documents, context, augmented_messages,
                   answer, returned, composer_args, gen_outcomes>>
    /\ UNCHANGED kbVars
    /\ UNCHANGED otherVars

\* retrieve_documents, lines 102-108, and the assignment of lines 139-141
Rank ==
    /\ pc = "rank"
    /\ LET r == RetrieveDocuments(documents, query_embeddings, top_k)
       IN IF r.raised
          THEN /\ pc' = "raised"
               /\ exc' = r.exc
               /\ UNCHANGED related_documents
          ELSE /\ pc' = "compose"
               /\ related_documents' = r.value
               /\ UNCHANGED exc
    /\ UNCHANGED <<query, top_k, query_embeddings, context, augmented_messages,
                   answer, returned, query_outcome, composer_args, gen_outcomes>>
    /\ UNCHANGED kbVars
    /\ UNCHANGED otherVars

\* lines 142-143: _format_context, then _create_prompt_messages
Compose ==
    /\ pc = "compose"
    /\ pc' = "generate"
    /\ composer_args' = Append(composer_args, related_documents)
    /\ context' = FormatContext(related_documents)
    /\ augmented_messages' = CreatePromptMessages(query, context')
    /\ UNCHANGED <<query, top_k, query_embeddings, related_documents, answer,
                   returned, exc, query_outcome, gen_outcomes>>
    /\ UNCHANGED kbVars
    /\ UNCHANGED otherVars

\* line 144: _generate_response, with the chat endpoint answering `out`
Generate(out) ==
    /\ pc = "generate"
    /\ gen_outcomes' = Append(gen_outcomes, out)
    /\ LET r == GenerateResponse(out)
       IN IF r.raised
          THEN /\ pc' = "raised"
               /\ exc' = r.exc
               /\ UNCHANGED answer
          ELSE /\ pc' = "return"
               /\ answer' = r.value
               /\ UNCHANGED exc
    /\ UNCHANGED <<query, top_k, query_embeddings, related_documents, context,
                   augmented_messages, returned, query_outcome, composer_args>>
    /\ UNCHANGED kbVars
    /\ UNCHANGED otherVars

\* line 145: the Result is built and returned
Return ==
    /\ pc = "return"
    /\ pc' = "done"
    /\ returned' = <<Result(answer, related_documents)>>
    /\ UNCHANGED <<query, top_k, query_embeddings, related_documents, context,
                   augmented_messages, answer, exc, query_outcome,
                   composer_args, gen_outcomes>>
    /\ UNCHANGED kbVars
    /\ UNCHANGED otherVars

\* ------------------------------------------------- the SOCI indexer Lambda
\* the external steps of one handler run, in program order: line 39;
\* install_soci lines 88, 96, 102, 103; authenticate_ecr lines 120-126 and
\* 136-140; generate_soci_index lines 155 and 160
StepOrder ==
    <<"get_caller_identity", "download", "extract", "copy", "chmod",
      "get_authorization_token", "docker_login", "soci_create", "soci_push">>
InstallSteps == {"download", "extract", "copy", "chmod"}
AuthSteps == {"get_authorization_token", "docker_login"}
GenerateSteps == {"soci_create", "soci_push"}

\* handler, lines 21-31: event.get('detail', {}) is {} for an absent key
\* and None for a null one (None.get raises AttributeError); `not x` holds
\* of an absent and of an empty field
ParseEvent(ev) ==
    IF ev.detail = "null"
    THEN [kind |-> "raise", exc |-> "AttributeError", image_tag |-> ""]
    ELSE LET repository_name == IF ev.detail = "absent" THEN "absent" ELSE ev.repo
             image_digest == IF ev.detail = "absent" THEN "absent" ELSE ev.digest
             image_tag == IF ev.detail = "absent" \/ ev.tag = "absent"
                          THEN "latest" ELSE "tag"
         IN IF repository_name \in {"absent", "empty"}
               \/ image_digest \in {"absent", "empty"}
            THEN [kind |-> "missing", exc |-> "", image_tag |-> image_tag]
            ELSE [kind |-> "ok", exc |-> "", image_tag |-> image_tag]

\* faulty variant of HandlerExcept: the exception is not caught
HandlerExceptReraise(e) ==
    [escaped |-> TRUE, response |-> NoResponse]
\* handler's except clause, lines 68-73
HandlerExcept(e) ==
    [escaped |-> FALSE, response |-> [statusCode |-> 500, body |-> e]]

\* an invocation: handler runs up to its first external call, lines 13-33
HandlerInvoke(ev) ==
    /\ h_pc \in {"idle", "returned"}
    /\ h_invocations < MaxInvocations
    /\ h_invocations' = h_invocations + 1
    /\ h_event' = ev
    /\ h_steps_done' = <<>>
    /\ LET p == ParseEvent(ev)
       IN /\ h_image_tag' = p.image_tag
          /\ IF p.kind = "raise"
             THEN /\ h_pc' = "returned"
                  /\ h_next' = 0
                  /\ h_escaped' = HandlerExcept(p.exc).escaped
                  /\ h_response' = HandlerExcept(p.exc).response
             ELSE IF p.kind = "missing"
             THEN /\ h_pc' = "returned"
                  /\ h_next' = 0
                  /\ h_escaped' = FALSE
                  /\ h_response' = [statusCode |-> 400,
                                    body |-> "Missing repository name or image digest"]
             ELSE /\ h_pc' = "running"
                  /\ h_next' = 1
                  /\ h_escaped' = FALSE
                  /\ h_response' = NoResponse
    /\ UNCHANGED h_tmp_soci
    /\ UNCHANGED ragVars

\* the step StepOrder[h_next] ends: on success the handler goes on (after
\* soci_push it returns 200, lines 57-66); a failure raises, every function
\* lets it through to handler's except clause
HandlerStep(ok) ==
    /\ h_pc = "running"
    /\ IF ok
       THEN /\ h_steps_done' = Append(h_steps_done, StepOrder[h_next])
            /\ h_tmp_soci' = (h_tmp_soci \/ StepOrder[h_next] = "copy")
            /\ h_escaped' = FALSE
            /\ IF h_next = Len(StepOrder)
               THEN /\ h_pc' = "returned"
                    /\ h_next' = 0
                    /\ h_response' = [statusCode |-> 200,
                                      body |-> "SOCI index generated successfully"]
               ELSE /\ h_pc' = "running"
                    /\ h_next' = h_next + 1
                    /\ UNCHANGED h_response
       ELSE /\ h_pc' = "returned"
            /\ h_next' = 0
            /\ h_escaped' = HandlerExcept(StepOrder[h_next]).escaped
            /\ h_response' = HandlerExcept(StepOrder[h_next]).response
            /\ UNCHANGED <<h_steps_done, h_tmp_soci>>
    /\ UNCHANGED <<h_event, h_image_tag, h_invocations>>
    /\ UNCHANGED ragVars

\* handler, lines 36-46: the clients, the account id and the region
GetCallerIdentity(ok) ==
    /\ h_pc = "running"
    /\ StepOrder[h_next] = "get_caller_identity"
    /\ HandlerStep(ok)
\* install_soci, lines 75-112
InstallSoci(ok) ==
    /\ h_pc = "running"
    /\ StepOrder[h_next] \in InstallSteps
    /\ HandlerStep(ok)
\* authenticate_ecr, lines 114-146
AuthenticateEcr(ok) ==
    /\ h_pc = "running"
    /\ StepOrder[h_next] \in AuthSteps
    /\ HandlerStep(ok)
\* generate_soci_index, lines 148-168
GenerateSociIndex(ok) ==
    /\ h_pc = "running"
    /\ StepOrder[h_next] \in GenerateSteps
    /\ HandlerStep(ok)

NextSoci ==
    \/ \E ev \in Events : HandlerInvoke(ev)
    \/ \E ok \in BOOLEAN : GetCallerIdentity(ok)
    \/ \E ok \in BOOLEAN : InstallSoci(ok)
    \/ \E ok \in BOOLEAN : AuthenticateEcr(ok)
    \/ \E ok \in BOOLEAN : GenerateSociIndex(ok)

SpecSoci == Init /\ [][NextSoci]_vars

\* faulty variant of DocumentsAfterRetrieve: the ranking sorts
\* self.documents in place
DocumentsAfterRetrieveSortedInPlace(docs, qemb, k) ==
    LET dots == [i \in 1..Len(docs) |-> NpDot(qemb, docs[i].embeddings)]
    IN IF \E i \in 1..Len(docs) : dots[i].raised THEN docs
       ELSE LET sorted ==
                    SortedDesc([i \in 1..Len(docs) |->
                                   [score |-> dots[i].value, doc |-> docs[i]]])
            IN [i \in 1..Len(docs) |-> sorted[i].doc]
\* what retrieve_documents leaves in self.documents, lines 101-108: the
\* comprehension reads it, sorted() builds a new list, nothing is assigned
\* to self.documents or to a document
DocumentsAfterRetrieve(docs, qemb, k) == docs

\* a thread enters retrieve_documents, line 94
RetrieveStart(t, k) ==
    /\ kb_state = "built"
    /\ t_pc[t] \in {"idle", "done", "raised"}
    /\ t_pc' = [t_pc EXCEPT ![t] = "embed_query"]
    /\ t_top_k' = [t_top_k EXCEPT ![t] = k]
    /\ t_query_embeddings' = [t_query_embeddings EXCEPT ![t] = None]
    /\ t_result' = [t_result EXCEPT ![t] = <<>>]
    /\ t_exc' = [t_exc EXCEPT ![t] = ""]
    /\ UNCHANGED <<kbVars, callVars, exc>>
    /\ UNCHANGED sociVars

\* line 101 in a thread: the query is embedded; an exception ends the call
\* and its locals
RetrieveEmbed(t, out) ==
    /\ t_pc[t] = "embed_query"
    /\ LET r == EmbedSingleText(out)
       IN IF r.raised
          THEN /\ t_pc' = [t_pc EXCEPT ![t] = "raised"]
               /\ t_exc' = [t_exc EXCEPT ![t] = r.exc]
               /\ t_top_k' = [t_top_k EXCEPT ![t] = 0]
               /\ UNCHANGED t_query_embeddings
          ELSE /\ t_pc' = [t_pc EXCEPT ![t] = "rank"]
               /\ t_query_embeddings' = [t_query_embeddings EXCEPT ![t] = r.value]
               /\ UNCHANGED <<t_exc, t_top_k>>
    /\ UNCHANGED t_result
    /\ UNCHANGED <<kbVars, callVars, exc>>
    /\ UNCHANGED sociVars

\* lines 102-108 in a thread: the scan of self.documents, the sort and the
\* slice; the call returns (or raises) and its locals are gone
RetrieveRank(t) ==
    /\ t_pc[t] = "rank"
    /\ LET r == RetrieveDocuments(documents, t_query_embeddings[t], t_top_k[t])
       IN IF r.raised
          THEN /\ t_pc' = [t_pc EXCEPT ![t] = "raised"]
               /\ t_exc' = [t_exc EXCEPT ![t] = r.exc]
               /\ UNCHANGED t_result
          ELSE /\ t_pc' = [t_pc EXCEPT ![t] = "done"]
               /\ t_result' = [t_result EXCEPT ![t] = r.value]
               /\ UNCHANGED t_exc
    /\ documents' = DocumentsAfterRetrieve(documents, t_query_embeddings[t], t_top_k[t])
    /\ t_top_k' = [t_top_k EXCEPT ![t] = 0]
    /\ t_query_embeddings' = [t_query_embeddings EXCEPT ![t] = None]
    /\ UNCHANGED <<kb_state, raw_documents, building, doc_index, embed_in_flight,
                   build_outcomes>>
    /\ UNCHANGED <<callVars, exc>>
    /\ UNCHANGED sociVars

Next ==
    \/ \E n \in 0..MaxDocs : KnowledgeBaseInit(n)
    \/ IssueEmbedding
    \/ \E out \in EmbedOutcomes : CreateEmbeddings(out)
    \/ AssignDocuments
    \/ \E q \in Queries, k \in Ks : SearchAndGenerate(q, k)
    \/ \E out \in EmbedOutcomes : EmbedQuery(out)
    \/ Rank
    \/ Compose
    \/ \E out \in GenOutcomes : Generate(out)
    \/ Return

Spec == Init /\ [][Next]_vars

\* the build, then threads calling retrieve_documents concurrently
NextConcurrent ==
    \/ \E n \in 0..MaxDocs : KnowledgeBaseInit(n)
    \/ IssueEmbedding
    \/ \E out \in EmbedOutcomes : CreateEmbeddings(out)
    \/ AssignDocuments
    \/ \E t \in Threads, k \in Ks : RetrieveStart(t, k)
    \/ \E t \in Threads, out \in EmbedOutcomes : RetrieveEmbed(t, out)
    \/ \E t \in Threads : RetrieveRank(t)

SpecConcurrent == Init /\ [][NextConcurrent]_vars

\* ------------------------------------------------------------ properties
\* the endpoint outcomes of the current call
QueryEmbedFailed == query_outcome # <<>> /\ query_outcome[1].kind = "raise"
QueryEmbedded == query_outcome # <<>> /\ query_outcome[1].kind = "ok"
GenCallFailed == gen_outcomes # <<>> /\ gen_outcomes[Len(gen_outcomes)].kind = "raise"
\* the stages after retrieve_documents has returned
Retrieved == pc \in {"compose", "generate", "return", "done"}
\* a text that reports the failure `reason`
IsErrorText(t, reason) == Len(t) = 2 /\ t[1] = ErrorPrefix /\ t[2] = reason

\* C1 as stated: when retrieval succeeded and the chat endpoint raised, the
\* call does not raise, and the Result it returns has an error-describing
\* answer and supporting documents that are non-empty and are the documents
\* retrieval returned.
C1_GenerationIsolation_AsStated ==
    GenCallFailed =>
        /\ pc \in {"return", "done"}
        /\ pc = "done" =>
              /\ Len(returned) = 1
              /\ IsErrorText(returned[1].answer, gen_outcomes[1].reason)
              /\ returned[1].supporting_documents # <<>>
              /\ returned[1].supporting_documents = related_documents

\* C1 amended: when retrieval succeeded and the chat endpoint raised, the
\* call does not raise, and the Result it returns has an error-describing
\* answer and exactly the documents retrieval returned as supporting
\* documents, which are non-empty whenever top_k >= 1 and the index holds at
\* least one document.
C1_GenerationIsolation ==
    GenCallFailed =>
        /\ pc \in {"return", "done"}
        /\ exc = ""
        /\ pc = "done" =>
              /\ Len(returned) = 1
              /\ IsErrorText(returned[1].answer, gen_outcomes[1].reason)
              /\ returned[1].supporting_documents = related_documents
              /\ related_documents =
                    RetrieveDocuments(documents, query_embeddings, top_k).value
              /\ (top_k >= 1 /\ Len(documents) >= 1) =>
                    returned[1].supporting_documents # <<>>

\* C1 witness: a call whose chat completion raised has returned a Result
\* carrying two supporting documents.
C1_Witness ==
    /\ pc = "done"
    /\ GenCallFailed
    /\ Len(returned[1].supporting_documents) = 2

\* C2: when embedding the query fails, the call ends by raising that
\* failure, returns no Result, and neither _format_context nor the chat
\* endpoint is called.
C2_RetrievalFailureIsolation ==
    QueryEmbedFailed =>
        /\ pc = "raised"
        /\ exc = query_outcome[1].reason
        /\ returned = <<>>
        /\ related_documents = <<>>
        /\ composer_args = <<>>
        /\ gen_outcomes = <<>>

\* C2 witness: a call on a non-empty index has raised out of the query
\* embedding.
C2_Witness ==
    /\ pc = "raised"
    /\ QueryEmbedFailed
    /\ Len(documents) >= 1

\* the position in self.documents of a document (ids are unique)
PosOf(doc) == CHOOSE i \in 1..Len(documents) : documents[i].id = doc.id
\* the dot product of the query vector with document i's vector
DotOf(i) == SumProd(query_embeddings.vec, documents[i].embeddings.vec)
NormSq(v) == SumProd(v, v)
\* sign(x) * x^2 * m, monotone in x / sqrt(n) when compared across the
\* cross-multiplied pair below
SignedSq(x) == IF x >= 0 THEN x * x ELSE 0 - x * x
\* cosine(query, document i) compared with cosine(query, document j), in
\* integers: dot_i / |d_i| against dot_j / |d_j| (the query norm cancels)
CosGreater(i, j) ==
    SignedSq(DotOf(i)) * NormSq(documents[j].embeddings.vec)
        > SignedSq(DotOf(j)) * NormSq(documents[i].embeddings.vec)
CosEqual(i, j) ==
    SignedSq(DotOf(i)) * NormSq(documents[j].embeddings.vec)
        = SignedSq(DotOf(j)) * NormSq(documents[i].embeddings.vec)
DotGreater(i, j) == DotOf(i) > DotOf(j)
DotEqual(i, j) == DotOf(i) = DotOf(j)

\* `result` is the best `m` documents of the index under the score order
\* Gt/Eq: its entries are documents of the index, each ranked before the
\* next and before every document left out, where a ranks before b when it
\* scores higher, or equal and earlier in the corpus.
IsRankedPrefix(result, m, Gt(_, _), Eq(_, _)) ==
    LET n == Len(documents)
        idx == [i \in 1..Len(result) |-> PosOf(result[i])]
        chosen == {idx[i] : i \in 1..Len(result)}
        Before(a, b) == Gt(a, b) \/ (Eq(a, b) /\ a < b)
    IN /\ Len(result) = m
       /\ \A i \in 1..Len(result) :
             \E p \in 1..n : result[i] = documents[p]
       /\ \A i, j \in 1..Len(result) : i < j => Before(idx[i], idx[j])
       /\ \A a \in chosen, b \in (1..n) \ chosen : Before(a, b)

\* C3 as stated: for every index (vectors of any length), query vector and
\* k >= 0, retrieval returns exactly the min(k, N) highest-scoring documents
\* by cosine similarity, in descending order, equal scores in corpus order.
C3_TopKByCosine ==
    (Retrieved /\ top_k >= 0) =>
        IsRankedPrefix(related_documents, Min(top_k, Len(documents)),
                       CosGreater, CosEqual)

\* C4: when the query is embedded and comparable with every stored vector,
\* retrieval does not raise; with k = 0 it returns the empty sequence, and
\* with k >= N it returns all N documents, each exactly once, in descending
\* order of the score retrieval computes, equal scores in corpus order.
C4_KEdgeCases ==
    LET n == Len(documents)
        comparable ==
            \A i \in 1..n : ~NpDot(query_embeddings, documents[i].embeddings).raised
    IN (QueryEmbedded /\ comparable /\ pc # "rank" /\ (top_k = 0 \/ top_k >= n)) =>
          /\ Retrieved
          /\ top_k = 0 => related_documents = <<>>
          /\ top_k >= n =>
                /\ IsRankedPrefix(related_documents, n, DotGreater, DotEqual)
                /\ \A p \in 1..n :
                      Cardinality({i \in 1..Len(related_documents) :
                                     related_documents[i] = documents[p]}) = 1

\* C4 witness: with k above the corpus size, retrieval has returned both
\* documents of a two-document index, the second before the first.
C4_Witness ==
    /\ pc = "compose"
    /\ Len(documents) = 2
    /\ top_k > 2
    /\ related_documents = <<documents[2], documents[1]>>

\* C5 as stated: a call with an empty query or a negative k makes no
\* embedding and no chat endpoint call, returns no Result, and ends by
\* raising InvalidRequest.
C5_RequestValidation ==
    (pc # "idle" /\ (query = "" \/ top_k < 0)) =>
        /\ query_outcome = <<>>
        /\ gen_outcomes = <<>>
        /\ returned = <<>>
        /\ pc \in {"done", "raised"} => (pc = "raised" /\ exc = "InvalidRequest")

\* the embedding endpoint raised for some document of the build
BuildEmbedFailed ==
    \E i \in 1..Len(build_outcomes) : build_outcomes[i].kind = "raise"
\* an embedding of the expected dimension
WellFormed(e) == e.some /\ Len(e.vec) = Dim

\* C6: if the embedding call fails for any document of the build, __init__
\* raises and no KnowledgeBase exists (nothing is assigned to
\* self.documents and no call can be made on it); a KnowledgeBase the caller
\* holds has all N documents, in corpus order, each with the embedding the
\* endpoint returned for it.
C6_BuildAtomicity ==
    /\ BuildEmbedFailed =>
          /\ kb_state = "failed"
          /\ exc = build_outcomes[Len(build_outcomes)].reason
    /\ kb_state # "built" => (documents = <<>> /\ pc = "idle")
    /\ kb_state = "built" =>
          /\ Len(documents) = Len(raw_documents)
          /\ \A i \in 1..Len(documents) :
                /\ documents[i].id = raw_documents[i].id
                /\ documents[i].embeddings = build_outcomes[i].value

\* C6 witness: the build failed on its second document, after the first
\* was embedded.
C6_Witness ==
    /\ kb_state = "failed"
    /\ Len(build_outcomes) = 2
    /\ build_outcomes[1].kind = "ok"
    /\ build_outcomes[2].kind = "raise"

\* C7 as stated: every document of a built index has a non-absent embedding
\* of the expected dimension, and a build in which the endpoint returned an
\* absent or wrongly sized vector never yields an index.
C7_IndexEmbeddingInvariant ==
    /\ kb_state = "built" =>
          \A i \in 1..Len(documents) : WellFormed(documents[i].embeddings)
    /\ (\E i \in 1..Len(build_outcomes) :
            build_outcomes[i].kind = "ok" /\ ~WellFormed(build_outcomes[i].value))
          => kb_state # "built"

\* C8: every returned Result carries as supporting documents exactly the
\* one sequence that was passed to _format_context, which is the sequence
\* retrieval ranked, in that order.
C8_Provenance ==
    pc = "done" =>
        /\ Len(returned) = 1
        /\ composer_args = <<returned[1].supporting_documents>>
        /\ returned[1].supporting_documents =
              RetrieveDocuments(documents, query_embeddings, top_k).value

\* C8 witness: a call has returned two supporting documents that retrieval
\* ranked against corpus order.
C8_Witness ==
    /\ pc = "done"
    /\ Len(documents) = 2
    /\ returned[1].supporting_documents = <<documents[2], documents[1]>>

\* the document fields of the corpus, as tokens
FieldTokens ==
    {Corpus[i].id : i \in 1..Len(Corpus)}
    \cup {Corpus[i].title : i \in 1..Len(Corpus)}
    \cup {Corpus[i].content : i \in 1..Len(Corpus)}
IsFieldToken(t) == t \in FieldTokens
\* id, title and content of each record, in input order
RECURSIVE FieldsInOrder(_)
FieldsInOrder(docs) ==
    IF docs = <<>> THEN <<>>
    ELSE <<docs[1].id, docs[1].title, docs[1].content>> \o FieldsInOrder(Tail(docs))

\* C9 as stated: the composed context renders one block per record in
\* input order, and the fields it renders are each record's identifier,
\* title and content (the content itself, not the title again).
C9_ContextComposition ==
    pc \in {"generate", "return", "done"} =>
        SelectSeq(context, IsFieldToken) = FieldsInOrder(related_documents)

\* a chat completion that returned a text of blanks only
EmptyGeneration ==
    /\ gen_outcomes # <<>>
    /\ gen_outcomes[1].kind = "ok"
    /\ \A i \in 1..Len(gen_outcomes[1].content) : gen_outcomes[1].content[i] = " "

\* C10 as stated: when the chat endpoint returns an empty or
\* whitespace-only text, the answer is an error description, never the
\* empty string, and the supporting documents are the retrieved ones.
C10_EmptyGenerationIsFailure ==
    (EmptyGeneration /\ pc \in {"return", "done"}) =>
        /\ answer # <<>>
        /\ answer[1] = ErrorPrefix
        /\ pc = "done" =>
              /\ returned[1].answer = answer
              /\ returned[1].supporting_documents = related_documents

\* the stage of the answer call that a program position belongs to
StageOf(p) ==
    CASE p = "idle" -> "Idle"
      [] p \in {"embed_query", "rank"} -> "Retrieving"
      [] p = "compose" -> "Composing"
      [] p \in {"generate", "return"} -> "Generating"
      [] p = "done" -> "Done"
      [] p = "raised" -> "Failed"
\* a step that enters search_and_generate
CallStarts == pc \in {"idle", "done", "raised"} /\ pc' \notin {"idle", "done", "raised"}
\* the stages follow one another: Retrieving, Composing, Generating, Done,
\* with Failed reached from Retrieving only
StageEdgeOk ==
    LET from == StageOf(pc)
        to == StageOf(pc')
    IN \/ from = to /\ pc' = pc
       \/ from \in {"Idle", "Done", "Failed"} /\ to \in {"Retrieving", "Failed"}
       \/ from = "Retrieving" /\ to \in {"Retrieving", "Composing", "Failed"}
            /\ (to = "Retrieving" => (pc = "embed_query" /\ pc' = "rank"))
       \/ from = "Composing" /\ to = "Generating"
       \/ from = "Generating" /\ to \in {"Generating", "Done"}
            /\ (to = "Generating" => (pc = "generate" /\ pc' = "return"))
\* Validating: a call goes on to Retrieving only with a non-empty query and
\* k >= 0, and otherwise fails at once with InvalidRequest
ValidatedEntry ==
    CallStarts =>
        IF query' # "" /\ top_k' >= 0
        THEN pc' = "embed_query"
        ELSE pc' = "raised" /\ exc' = "InvalidRequest"
\* a call starts with nothing left of the call before it
FreshCall ==
    CallStarts =>
        /\ query_embeddings' = None
        /\ related_documents' = <<>>
        /\ context' = <<>>
        /\ augmented_messages' = <<>>
        /\ answer' = <<>>
        /\ returned' = <<>>
        /\ exc' = ""
        /\ query_outcome' = <<>>
        /\ composer_args' = <<>>
        /\ gen_outcomes' = <<>>
\* each endpoint, and the composer, is called at most once per call
GatewaysOnce ==
    /\ Len(query_outcome) <= 1
    /\ Len(composer_args) <= 1
    /\ Len(gen_outcomes) <= 1
\* a failure of the call comes from Retrieving, an error answer from
\* Generating
TerminalsOk ==
    /\ pc = "raised" => (composer_args = <<>> /\ gen_outcomes = <<>>)
    /\ pc = "done" => (Len(composer_args) = 1 /\ Len(gen_outcomes) = 1)

\* C11 as stated: every call passes through Validating, Retrieving,
\* Composing, Generating in that order, without skipping or repeating one;
\* it ends in Done (from Generating), Failed(Retrieval) (from Retrieving) or
\* Failed(Validation) (from Validating); each endpoint is called at most
\* once per call; a call sees nothing of the call before it.
C11_StageOrdering ==
    /\ [](GatewaysOnce /\ TerminalsOk)
    /\ [][StageEdgeOk /\ ValidatedEntry /\ FreshCall]_vars

\* the part of C11 that does not involve Validating: the order Retrieving,
\* Composing, Generating, Done, the two early exits, one call per endpoint
\* and fresh locals
StageOrderingAfterEntry ==
    /\ [](GatewaysOnce /\ TerminalsOk)
    /\ [][StageEdgeOk /\ FreshCall]_vars

\* the index as the build made it: the raw documents in corpus order, each
\* with the embedding the endpoint returned for it
BuiltDocuments ==
    [i \in 1..Len(raw_documents) |->
        Document(raw_documents[i].id, raw_documents[i].title,
                 raw_documents[i].content, raw_documents[i].category,
                 build_outcomes[i].value)]
\* thread t's ranking step returns what the same call returns when it runs
\* alone on the index as built
RankAsAlone(t) ==
    (t_pc[t] = "rank" /\ t_pc'[t] # "rank") =>
        LET alone == RetrieveDocuments(BuiltDocuments, t_query_embeddings[t],
                                       t_top_k[t])
        IN IF alone.raised
           THEN t_pc'[t] = "raised" /\ t_exc'[t] = alone.exc
           ELSE t_pc'[t] = "done" /\ t_result'[t] = alone.value

\* C12: once the index is built, retrieve calls running concurrently in any
\* interleaving leave the document list, its order and every stored
\* embedding as the build made them, and each call returns what it would
\* return when run alone.
C12_RetrieveReadOnly ==
    /\ [](kb_state = "built" => documents = BuiltDocuments)
    /\ [][kb_state = "built" => (kb_state' = "built" /\ documents' = documents)]_vars
    /\ [][\A t \in Threads : RankAsAlone(t)]_vars

\* C12 witness: one thread's call has returned both documents of a
\* two-document index, reordered, while the other thread's call is between
\* its query embedding and its ranking.
C12_Witness ==
    /\ Len(documents) = 2
    /\ t_pc["t1"] = "done"
    /\ t_result["t1"] = <<documents[2], documents[1]>>
    /\ t_pc["t2"] = "rank"

\* the number of embedding calls the build can have outstanding: the list
\* comprehension of _create_embeddings makes them one after the other
ConcurrencyLimit == 1
\* the position of the first embedding call of the build that failed
FirstBuildFailure ==
    CHOOSE i \in 1..Len(build_outcomes) :
        /\ build_outcomes[i].kind = "raise"
        /\ \A j \in 1..(i - 1) : build_outcomes[j].kind = "ok"

\* C13: during the build the embedding calls in flight never exceed the
\* limit (one: the calls are sequential), and once a document's embedding
\* call has failed no further embedding call is issued (the failed call is
\* the last one made and none is outstanding), the build has failed, and
\* the exception it raised is that first failure.
C13_BuildFailFast ==
    /\ embed_in_flight <= ConcurrencyLimit
    /\ doc_index + embed_in_flight <= Len(raw_documents)
    /\ BuildEmbedFailed =>
          /\ FirstBuildFailure = Len(build_outcomes)
          /\ embed_in_flight = 0
          /\ kb_state = "failed"
          /\ exc = build_outcomes[FirstBuildFailure].reason

\* C13 witness: the build of a two-document corpus failed on the first
\* document; the second document's embedding call was never issued.
C13_Witness ==
    /\ kb_state = "failed"
    /\ Len(raw_documents) = 2
    /\ Len(build_outcomes) = 1
    /\ embed_in_flight = 0

\* the event lacks repository-name or image-digest
MissingData(ev) ==
    \/ ev.detail # "object"
    \/ ev.repo \in {"absent", "empty"}
    \/ ev.digest \in {"absent", "empty"}
\* the steps done are the first n steps of the program order
IsStepPrefix(done) ==
    /\ Len(done) <= Len(StepOrder)
    /\ \A i \in 1..Len(done) : done[i] = StepOrder[i]
\* what the claim says of every event but for the status of a missing-data
\* event: no exception leaves handler, a missing-data event runs no step,
\* 200 only after all steps in order, 500 after a failure with no later step
HandlerOutcomeOk ==
    /\ ~h_escaped
    /\ IsStepPrefix(h_steps_done)
    /\ (h_pc # "idle" /\ MissingData(h_event)) =>
          (h_pc = "returned" /\ h_steps_done = <<>>)
    /\ h_pc = "returned" => h_response.statusCode \in {200, 400, 500}
    /\ h_pc = "running" => h_response = NoResponse
    /\ h_response.statusCode = 200 => h_steps_done = StepOrder
    /\ h_response.statusCode = 500 =>
          (Len(h_steps_done) < Len(StepOrder)
           /\ (~MissingData(h_event) =>
                 h_response.body = StepOrder[Len(h_steps_done) + 1]))

\* C14 as stated: no exception leaves handler; an event without
\* repository-name or image-digest gets statusCode 400 and runs no step;
\* 200 is returned only after install_soci, authenticate_ecr, soci create
\* and soci push succeeded in that order; a failed step gives 500 and no
\* later step runs.
C14_SociHandlerOrdering ==
    /\ HandlerOutcomeOk
    /\ (h_pc # "idle" /\ MissingData(h_event)) => h_response.statusCode = 400

\* the same with the 400 limited to events whose `detail` is absent or an
\* object; a null `detail` gets 500, again without running a step
SociHandlerOrderingObjectDetail ==
    /\ HandlerOutcomeOk
    /\ (h_pc # "idle" /\ MissingData(h_event)) =>
          h_response.statusCode = IF h_event.detail = "null" THEN 500 ELSE 400

====
